---- MODULE Spec2Model ----
(***************************************************************************)
(* ProtLocalizedExtraction (localrec/protocols/protocol_filter_subparticles *)
(* .py): the validation gate _validate and the extraction step             *)
(* createOutputStep, which crops sub-particles out of their parent particle *)
(* images, writes them into an indexed stack and collects their records.   *)
(*                                                                         *)
(* The names inputParticles, ih, b2, center, outputImg, outputStack, i,    *)
(* outliers and partIdExcluded are used by createOutputStep but bound       *)
(* nowhere in the file; their initial values are taken from the            *)
(* specification (section 4.1) and kept in definitions of their own        *)
(* (Accumulators, RunAllowed, StackWrite).                                 *)
(***************************************************************************)
EXTENDS Integers, Sequences, FiniteSets, TLC

VARIABLES
    inputCoords,     \* the input SetOfCoordinates; a record's id is its index
    particles,       \* ids of the particles present in the input particle set
    images,          \* particle id -> dimensions of its image
    b2,              \* crop half-size
    pc,              \* "new","refused","validated","loop","done","failed"
    errors,          \* the list _validate returned
    order,           \* ids of inputCoords in iteration order
    pos,             \* number of records the loop has completed
    lastPartId, partIdExcluded, outliers, i, x, y, data,
    outputStack,     \* the stack file: slot k holds the k-th written image
    outputSet,       \* the output collection
    published,       \* number of _defineOutputs calls of the current run
    lookups,         \* parent ids looked up by the current run, in order
    checked,         \* what each bounds test of the current run read
    runs,            \* runs of createOutputStep started
    prev             \* result of the previous completed run

vars == <<inputCoords, particles, images, b2, pc, errors, order, pos,
          lastPartId, partIdExcluded, outliers, i, x, y, data, outputStack,
          outputSet, published, lookups, checked, runs, prev>>

inputs == <<inputCoords, particles, images, b2>>

\* ------------------------------------------------------------------ bounds
MaxCoords == 3
MaxRuns == 2

ParentIds == {1, 2}
MicIds == {1, 2}

\* Python's None, for ids and for names not yet bound
None == 0

\* ------------------------------------------------------------ input domain
\* subMicId = None: the record has no _subparticle attribute
CoordRecords(Points) ==
    {[micId |-> m, subMicId |-> s, xpos |-> p[1], ypos |-> p[2]] :
        m \in ParentIds, s \in MicIds \cup {None}, p \in Points}

SeqsUpTo(S, n) == UNION {[1..k -> S] : k \in 1..n}

SmallImages == [p \in ParentIds |-> IF p = 1 THEN [w |-> 4, h |-> 3]
                                             ELSE [w |-> 3, h |-> 4]]

\* with b2 = 1: (3,2) fits the first image only, (2,3) the second only
SmallPoints == {<<3, 2>>, <<2, 3>>}

HasSubparticle(coord) == coord.subMicId # None

\* --------------------------------------------------------------- iteration
\* mutant: the records are iterated in id order, no orderBy
KeyLess_ById(coords, j, k) == j < k

\* iterItems(orderBy=['_subparticle._micId', '_micId', 'id'])
KeyLess(coords, j, k) ==
    \/ coords[j].subMicId < coords[k].subMicId
    \/ /\ coords[j].subMicId = coords[k].subMicId
       /\ coords[j].micId < coords[k].micId
    \/ /\ coords[j].subMicId = coords[k].subMicId
       /\ coords[j].micId = coords[k].micId
       /\ j < k

OrderBy(coords) ==
    LET n == Len(coords)
        Rank(k) == 1 + Cardinality({j \in 1..n : KeyLess(coords, j, k)})
    IN  [r \in 1..n |-> CHOOSE k \in 1..n : Rank(k) = r]

\* ------------------------------------------------------------- _validate
\* mutant: the last record is examined instead of the first
ValidateErrors_Last(coords) ==
    IF ~HasSubparticle(coords[Len(coords)])
        THEN <<"not localized-subparticles output">>
        ELSE <<>>

\* getFirstItem(): the record with the lowest id
ValidateErrors(coords) ==
    IF ~HasSubparticle(coords[1]) THEN <<"not localized-subparticles output">>
                                  ELSE <<>>

\* the framework starts the steps only when _validate returned no error
RunAllowed(errs) == errs = <<>>

\* ------------------------------------------------------ createOutputStep
\* initial values of the names the loop reads before it binds them
Accumulators == [i |-> 0, outliers |-> 0, partIdExcluded |-> <<>>]

\* mutant: the collection of the previous run is reused
CreateSetOfCoordinates_Reused == outputSet

\* "outputSet = self._createSetOfCoordinates()": a new, empty collection
CreateSetOfCoordinates == <<>>

\* mutant: only the first particle of a run is loaded
NeedsLoad_FirstOnly(partId, last) == last = None

\* "if partId != lastPartId"
NeedsLoad(partId, last) == partId # last

\* "particle = inputParticles[partId]": the particle, or None
Lookup(partId) == IF partId \in particles THEN partId ELSE None

\* mutant: the exclusion list is not consulted
Excluded_Never(partId, excl) == FALSE

\* "if not partId in partIdExcluded"
Excluded(partId, excl) == \E k \in 1..Len(excl) : excl[k] = partId

\* mutant: a window touching the far edge is rejected
OutOfBounds_Inclusive(xp, yp, hb, w, h) ==
    yp - hb < 0 \/ yp + hb >= h \/ xp - hb < 0 \/ xp + hb >= w

\* mutant: x is compared with the height and y with the width
OutOfBounds_Swapped(xp, yp, hb, w, h) ==
    yp - hb < 0 \/ yp + hb > w \/ xp - hb < 0 \/ xp + hb > h

\* "ypos - b2 < 0 or ypos + b2 > y or xpos - b2 < 0 or xpos + b2 > x"
OutOfBounds(xp, yp, hb, w, h) ==
    yp - hb < 0 \/ yp + hb > h \/ xp - hb < 0 \/ xp + hb > w

\* pixel (r, c) of the image of particle p
PixelOf(p, r, c) == <<p, r, c>>

\* "data[ypos - b2:ypos + b2, xpos - b2:xpos + b2]"
Crop(img, xp, yp, hb) ==
    [rc \in (0..(2 * hb - 1)) \X (0..(2 * hb - 1)) |->
        PixelOf(img, (yp - hb) + rc[1], (xp - hb) + rc[2])]

\* "outputImg.write((i, outputStack))": slot idx of the stack file
StackWrite(stack, idx, img) ==
    IF idx <= Len(stack) THEN [stack EXCEPT ![idx] = img]
                         ELSE Append(stack, img)

\* mutant: the record keeps the index of its coordinate
NewSubparticle_KeepsId(id, idx, set) ==
    [coord |-> id, location |-> <<id, "outputStack">>, objId |-> Len(set) + 1]

\* "subpart.setLocation((i, outputStack)); subpart.setObjId(None)" and the
\* id outputSet.append gives a record without one
NewSubparticle(id, idx, set) ==
    [coord |-> id, location |-> <<idx, "outputStack">>, objId |-> Len(set) + 1]

\* mutant: the loop is left after its first record
LoopDone_Early == pos >= 1

\* the for loop has run out of records
LoopDone == pos = Len(order)

\* what a run leaves behind, without the identities it assigned
Result ==
    [records |-> [k \in 1..Len(outputSet) |->
                    <<outputSet[k].coord, outputSet[k].location>>],
     images  |-> [k \in 1..i |-> outputStack[k]]]

Validate ==
    /\ pc = "new"
    /\ errors' = ValidateErrors(inputCoords)
    /\ pc' = IF RunAllowed(errors') THEN "validated" ELSE "refused"
    /\ UNCHANGED <<inputs, order, pos, lastPartId, partIdExcluded, outliers,
                   i, x, y, data, outputStack, outputSet, published, lookups,
                   checked, runs, prev>>

\* lines 93-100; the scheduler may run the step again once it is done
createOutputStepBegin ==
    /\ pc \in {"validated", "done"}
    /\ pc = "done" => runs < MaxRuns
    /\ pc' = "loop"
    /\ runs' = runs + 1
    /\ prev' = IF pc = "done" THEN <<Result>> ELSE prev
    /\ outputSet' = CreateSetOfCoordinates
    /\ lastPartId' = None
    /\ i' = Accumulators.i
    /\ outliers' = Accumulators.outliers
    /\ partIdExcluded' = Accumulators.partIdExcluded
    /\ x' = None /\ y' = None /\ data' = None
    /\ order' = OrderBy(inputCoords)
    /\ pos' = 0
    /\ published' = 0
    /\ lookups' = <<>>
    /\ checked' = <<>>
    /\ UNCHANGED <<inputs, errors, outputStack>>

\* one iteration of the loop, lines 99-142
LoopBody ==
    /\ pc = "loop"
    /\ ~LoopDone
    /\ LET id       == order[pos + 1]
           coord    == inputCoords[id]
           partId   == coord.micId
           changed  == NeedsLoad(partId, lastPartId)
           particle == IF changed THEN Lookup(partId) ELSE None
           missing  == changed /\ particle = None
           loaded   == changed /\ particle # None
           excl     == IF missing THEN Append(partIdExcluded, partId)
                                  ELSE partIdExcluded
           x1       == IF loaded THEN images[particle].w ELSE x
           y1       == IF loaded THEN images[particle].h ELSE y
           data1    == IF loaded THEN particle ELSE data
           skip     == Excluded(partId, excl)
           xpos     == coord.xpos
           ypos     == coord.ypos
           \* reading y before any image was loaded raises
           unbound  == ~skip /\ data1 = None /\ ~(ypos - b2 < 0)
           tested   == ~skip /\ ~unbound
           outlier  == tested /\ OutOfBounds(xpos, ypos, b2, x1, y1)
           accepted == tested /\ ~outlier
           \* "coord._subparticle" raises on a record without the attribute
           noSub    == accepted /\ ~HasSubparticle(coord)
           i1       == IF accepted THEN i + 1 ELSE i
       IN  /\ lookups' = IF changed THEN Append(lookups, partId) ELSE lookups
           /\ partIdExcluded' = excl
           /\ x' = x1 /\ y' = y1 /\ data' = data1
           /\ lastPartId' = IF changed THEN partId ELSE lastPartId
           /\ checked' = IF tested
                           THEN Append(checked, [coord |-> id, data |-> data1,
                                                 x |-> x1, y |-> y1])
                           ELSE checked
           /\ outliers' = IF outlier THEN outliers + 1 ELSE outliers
           /\ i' = i1
           /\ outputStack' = IF accepted
                               THEN StackWrite(outputStack, i1,
                                               Crop(data1, xpos, ypos, b2))
                               ELSE outputStack
           /\ outputSet' = IF accepted /\ ~noSub
                             THEN Append(outputSet,
                                         NewSubparticle(id, i1, outputSet))
                             ELSE outputSet
           /\ pc' = IF unbound \/ noSub THEN "failed" ELSE "loop"
           /\ pos' = IF unbound \/ noSub THEN pos ELSE pos + 1
    /\ UNCHANGED <<inputs, errors, order, published, runs, prev>>

\* lines 144-149
createOutputStepEnd ==
    /\ pc = "loop"
    /\ LoopDone
    /\ published' = published + 1
    /\ pc' = "done"
    /\ UNCHANGED <<inputs, errors, order, pos, lastPartId, partIdExcluded,
                   outliers, i, x, y, data, outputStack, outputSet, lookups,
                   checked, runs, prev>>

\* ------------------------------------------------------- specifications
Fresh ==
    /\ pc = "new" /\ errors = <<>> /\ order = <<>> /\ pos = 0
    /\ lastPartId = None /\ partIdExcluded = <<>> /\ outliers = 0 /\ i = 0
    /\ x = None /\ y = None /\ data = None
    /\ outputStack = <<>> /\ outputSet = <<>> /\ published = 0
    /\ lookups = <<>> /\ checked = <<>> /\ runs = 0 /\ prev = <<>>

Init ==
    /\ inputCoords \in SeqsUpTo(CoordRecords(SmallPoints), MaxCoords)
    /\ particles \in SUBSET ParentIds
    /\ images = SmallImages
    /\ b2 = 1
    /\ Fresh

Next == Validate \/ createOutputStepBegin \/ LoopBody \/ createOutputStepEnd

Spec == Init /\ [][Next]_vars

\* the step is synchronous: once started it runs to its end
FairSpec == Init /\ [][Next]_vars /\ WF_vars(Next)

\* the bounds test on its own: one coordinate on one image, over a range of
\* image sizes, half-sizes and positions around every edge
EdgeValues == (0 - 1)..6 \cup {24, 25, 100}
EdgeSizes == {[w |-> a, h |-> b] : a \in 1..5, b \in 1..5}
                 \cup {[w |-> 200, h |-> 200]}

InitBounds ==
    /\ \E xp \in EdgeValues, yp \in EdgeValues :
          inputCoords = <<[micId |-> 1, subMicId |-> 1, xpos |-> xp, ypos |-> yp]>>
    /\ particles = ParentIds
    /\ \E d \in EdgeSizes : images = [p \in ParentIds |-> d]
    /\ b2 \in {1, 2, 25}
    /\ Fresh

SpecBounds == InitBounds /\ [][Next]_vars

\* ----------------------------------------------------- notions of the claims
Parent(id) == inputCoords[id].micId
Loads(id) == Parent(id) \in particles
Started == pc \in {"loop", "done", "failed"}

\* the half-open window [ypos-b2, ypos+b2) x [xpos-b2, xpos+b2) lies in
\* [0, h) x [0, w) of the coordinate's own parent image
WindowRows(id) == (inputCoords[id].ypos - b2)..(inputCoords[id].ypos + b2 - 1)
WindowCols(id) == (inputCoords[id].xpos - b2)..(inputCoords[id].xpos + b2 - 1)
WindowInside(id) ==
    /\ WindowRows(id) \subseteq 0..(images[Parent(id)].h - 1)
    /\ WindowCols(id) \subseteq 0..(images[Parent(id)].w - 1)

Croppable(id) == Loads(id) /\ WindowInside(id)
Acceptable(id) == Croppable(id) /\ HasSubparticle(inputCoords[id])
ProcessedSeq == SubSeq(order, 1, pos)
AcceptedSeq == SelectSeq(ProcessedSeq, Acceptable)
OutputCoords == {outputSet[n].coord : n \in 1..Len(outputSet)}
Occurrences(seq, v) == Cardinality({k \in 1..Len(seq) : seq[k] = v})

FailingRecord == order[pos + 1]
AllCarrySubparticle == \A k \in 1..Len(inputCoords) : HasSubparticle(inputCoords[k])
ExcludedCoords ==
    {k \in 1..Len(inputCoords) : Occurrences(partIdExcluded, Parent(k)) > 0}
Contiguous(ord) ==
    \A a, b, c \in 1..Len(ord) :
        (a < b /\ b < c /\ Parent(ord[a]) = Parent(ord[c]))
            => Parent(ord[b]) = Parent(ord[a])
LookedUpOnce == \A p \in ParentIds : Occurrences(lookups, p) <= 1

\* the coordinates of one parent have one and the same _subparticle._micId
SameParentSameMic ==
    \A j, k \in 1..Len(inputCoords) :
        Parent(j) = Parent(k) => inputCoords[j].subMicId = inputCoords[k].subMicId

\* the pixels of the window of coordinate id in its own parent image
WindowPixelsAt(img, id) ==
    /\ DOMAIN img = (0..(2 * b2 - 1)) \X (0..(2 * b2 - 1))
    /\ \A rc \in DOMAIN img :
          img[rc] = <<Parent(id), inputCoords[id].ypos - b2 + rc[1],
                      inputCoords[id].xpos - b2 + rc[2]>>

\* C1: every processed coordinate whose parent loads and whose window is in
\* bounds has exactly one output record; the n-th accepted coordinate is the
\* n-th record, its location is (n, outputStack), and slot n of the stack
\* holds the pixels of its window.
C1_RankedOutput ==
    Started =>
        /\ Len(outputSet) = Len(AcceptedSeq)
        /\ \A n \in 1..Len(AcceptedSeq) :
              /\ outputSet[n].coord = AcceptedSeq[n]
              /\ outputSet[n].location = <<n, "outputStack">>
              /\ WindowPixelsAt(outputStack[n], AcceptedSeq[n])
        /\ pc # "failed" => i = Len(outputSet)

C1_Witness ==
    /\ pc = "done" /\ runs = 1
    /\ Len(outputSet) = 2
    /\ outputSet[1].coord > outputSet[2].coord
    /\ Len(inputCoords) = 3

\* C2 (as claimed): at the end of a run, no coordinate of a parent whose
\* lookup returned None is in the output, and that parent id occurs exactly
\* once in partIdExcluded, wherever its coordinates fall in the iteration.
C2_ExcludedOnce ==
    pc = "done" =>
        \A p \in {Parent(id) : id \in 1..Len(inputCoords)} \ particles :
            /\ \A id \in OutputCoords : Parent(id) # p
            /\ Occurrences(partIdExcluded, p) = 1

\* C3: outliers counts exactly the processed coordinates whose parent loaded
\* and whose window exceeds the image; none of them is written or appended
\* (every stack write belongs to a coordinate whose window is inside).
C3_OutlierCount ==
    Started =>
        /\ outliers = Cardinality({k \in 1..pos :
                          Loads(order[k]) /\ ~WindowInside(order[k])})
        /\ \A id \in OutputCoords : Loads(id) /\ WindowInside(id)
        /\ i = Cardinality({k \in 1..pos : Croppable(order[k])})
                 + (IF pc = "failed" THEN 1 ELSE 0)

C3_Witness ==
    /\ pc = "done"
    /\ outliers = 2
    /\ partIdExcluded # <<>>
    /\ \E k \in 1..Len(inputCoords) : ~Loads(k) /\ ~WindowInside(k)

\* C4: a bounds-tested coordinate is rejected iff its half-open window is not
\* contained in [0,y) x [0,x) of its parent image (x the width, y the height);
\* on a 200x200 image with b2 = 25, (24,100) is rejected and (25,100) is
\* cropped to rows [75,125), columns [0,50).
C4_BoundsTest ==
    (pc = "done" /\ Len(inputCoords) = 1 /\ Loads(1) /\ HasSubparticle(inputCoords[1])) =>
        /\ WindowInside(1) <=> (outliers = 0 /\ i = 1 /\ OutputCoords = {1})
        /\ ~WindowInside(1) <=> (outliers = 1 /\ i = 0 /\ OutputCoords = {})
        /\ (images[1] = [w |-> 200, h |-> 200] /\ b2 = 25 /\ inputCoords[1].ypos = 100) =>
              /\ inputCoords[1].xpos = 24 => outliers = 1
              /\ inputCoords[1].xpos = 25 =>
                    /\ outliers = 0
                    /\ DOMAIN outputStack[1] = (0..49) \X (0..49)
                    /\ outputStack[1][<<0, 0>>] = <<1, 75, 0>>
                    /\ outputStack[1][<<49, 49>>] = <<1, 124, 49>>

C4_Witness ==
    /\ pc = "done" /\ b2 = 25 /\ images[1] = [w |-> 200, h |-> 200]
    /\ inputCoords[1].xpos = 25 /\ inputCoords[1].ypos = 100
    /\ i = 1

\* C5 (as claimed): a collection in which any record lacks the sub-particle
\* attribute is refused by _validate and never reaches createOutputStep.
C5_AnyRecordRefused ==
    (\E k \in 1..Len(inputCoords) : ~HasSubparticle(inputCoords[k])) =>
        /\ pc \in {"new", "refused"}
        /\ runs = 0

\* C5 (amended): _validate returns a non-empty error list exactly when the
\* first record lacks the sub-particle attribute; the run is then refused and
\* createOutputStep is never reached (no stack write, no output).
C5_FirstRecordRefused ==
    /\ pc # "new" => (errors # <<>> <=> ~HasSubparticle(inputCoords[1]))
    /\ ~HasSubparticle(inputCoords[1]) =>
          /\ pc \in {"new", "refused"}
          /\ runs = 0 /\ outputStack = <<>> /\ outputSet = <<>> /\ published = 0

C5_Witness ==
    /\ pc = "refused"
    /\ Len(inputCoords) = 3
    /\ HasSubparticle(inputCoords[2])

\* C6: a run never fails on a missing parent or an out-of-bounds crop (the
\* only record a run fails on is one it accepted for cropping); a run whose
\* records all carry a sub-particle reaches the end, and there
\* output count = total - coordinates of excluded parents - outliers.
C6_Completes ==
    /\ [](pc = "failed" => Croppable(FailingRecord))
    /\ [](pc = "done" =>
            /\ pos = Len(inputCoords)
            /\ published = 1
            /\ Len(outputSet) = Len(inputCoords) - Cardinality(ExcludedCoords) - outliers)
    /\ (pc = "loop" /\ AllCarrySubparticle) ~> (pc = "done")

C6_Witness ==
    /\ pc = "done"
    /\ Len(inputCoords) = 3
    /\ Cardinality(ExcludedCoords) = 1 /\ outliers = 1 /\ Len(outputSet) = 1

\* C7: the output is defined at most once per run, only in the state the run
\* ends in, after the loop has processed every record; a failed run has
\* defined none.
C7_PublishedAtEnd ==
    /\ published <= 1
    /\ published = 1 <=> pc = "done"
    /\ published = 1 => pos = Len(inputCoords)
    /\ pc \in {"loop", "failed"} => published = 0

C7_Witness ==
    /\ pc = "done" /\ published = 1 /\ pos = 3
    /\ Len(outputSet) = 2 /\ AllCarrySubparticle

C10_CacheCoherent ==
    /\ \A k \in 1..Len(checked) :
          /\ checked[k].data = Parent(checked[k].coord)
          /\ checked[k].x = images[Parent(checked[k].coord)].w
          /\ checked[k].y = images[Parent(checked[k].coord)].h
    /\ \A id \in 1..Len(inputCoords) :
          (Loads(id) /\ \E k \in 1..pos : order[k] = id)
              => \E k \in 1..Len(checked) : checked[k].coord = id
    /\ pc = "failed" => Loads(FailingRecord)

C10_Witness ==
    /\ pc = "done"
    /\ lookups = <<1, 2, 1>>
    /\ particles = {1}
    /\ Len(checked) = 2 /\ Len(outputSet) = 2

====
